---------------------------- MODULE Spec2Model ----------------------------
(***************************************************************************)
(* Smart Document Analyzer: the upload / reprocess / delete state machine  *)
(* of pages/Index.tsx and components/DocumentUpload.tsx, and the text      *)
(* extractors of DocumentUpload.tsx.                                       *)
(*                                                                         *)
(* A JavaScript string is a sequence of one-character strings, so that     *)
(* trim, split, substring, lastIndexOf and toLowerCase are computed as the *)
(* code computes them.                                                     *)
(***************************************************************************)
EXTENDS Integers, Sequences, FiniteSets, TLC

VARIABLES
    mounted,            \* the mount effect of Index (useEffect, []) has run
    documents,          \* Index state: documents
    selectedDocument,   \* Index state: selectedDocument (NULL or a document)
    isUploading,        \* Index state: isUploading
    storage,            \* localStorage entry 'smart-analyzer-docs' (NULL or JSON)
    ops,                \* processFile / handleReprocess calls suspended at an await
    nextId,             \* the next id crypto.randomUUID() gives
    calls,              \* processFile and handleReprocess calls that reached an await
    today,              \* the calendar day new Date() reports
    toast,              \* the notifications the last handler showed
    zipRun,             \* one run of extractTextFromZIP, statement by statement
    pdfRun,             \* one run of a PDF extractor, statement by statement
    deleted             \* history: the ids handleDelete has been called with

vars == <<mounted, documents, selectedDocument, isUploading, storage, ops,
          nextId, calls, today, toast, zipRun, pdfRun, deleted>>

appVars == <<mounted, documents, selectedDocument, isUploading, storage, ops,
             nextId, calls, today, toast, deleted>>

-----------------------------------------------------------------------------
(* Bounds of the model *)

\* operations that may be suspended at an await at the same time
MaxOps == 2
\* processFile and handleReprocess calls of one run that reach an await
MaxCalls == 2
\* calendar days the clock may reach
MaxDay == 2
\* entries of an archive given to the archive extractor
MaxEntries == 2
\* pages of a PDF given to the PDF extractors
MaxPages == 3

-----------------------------------------------------------------------------
(* JavaScript values *)

\* null, and a value that may be undefined: Undefined or Defined(v)
NULL == <<>>
Undefined == <<>>
Defined(v) == <<v>>

\* text.trim(): the white space characters that occur in the model's texts
IsWhiteSpace(c) == c \in {" ", "\n", "\t"}

RECURSIVE TrimStart(_)
TrimStart(s) ==
    IF s = <<>> THEN <<>>
    ELSE IF IsWhiteSpace(Head(s)) THEN TrimStart(Tail(s)) ELSE s

RECURSIVE TrimEnd(_)
TrimEnd(s) ==
    IF s = <<>> THEN <<>>
    ELSE IF IsWhiteSpace(s[Len(s)]) THEN TrimEnd(SubSeq(s, 1, Len(s) - 1)) ELSE s

\* String.prototype.trim
Trim(s) == TrimEnd(TrimStart(s))

\* String.prototype.toLowerCase on one character
LowerChar(c) ==
    CASE c = "T" -> "t"
      [] c = "X" -> "x"
      [] c = "P" -> "p"
      [] c = "D" -> "d"
      [] c = "F" -> "f"
      [] OTHER -> c

ToLowerCase(s) == [i \in 1..Len(s) |-> LowerChar(s[i])]

\* String.prototype.lastIndexOf(c): 0-based, -1 when c does not occur
LastIndexOf(s, c) ==
    LET hits == {i \in 1..Len(s) : s[i] = c}
    IN  IF hits = {} THEN -1
        ELSE (CHOOSE i \in hits : \A j \in hits : j <= i) - 1

\* String.prototype.substring(start): a negative start counts as 0
Substring(s, start) ==
    LET from == IF start < 0 THEN 0 ELSE start
    IN  SubSeq(s, from + 1, Len(s))

\* String.prototype.endsWith
EndsWith(s, suffix) ==
    /\ Len(suffix) <= Len(s)
    /\ SubSeq(s, Len(s) - Len(suffix) + 1, Len(s)) = suffix

\* t occurs in s as a contiguous run of characters
Contains(s, t) ==
    \E i \in 0..(Len(s) - Len(t)) : SubSeq(s, i + 1, i + Len(t)) = t

RECURSIVE Join(_, _)
\* Array.prototype.join
Join(items, sep) ==
    IF items = <<>> THEN <<>>
    ELSE IF Len(items) = 1 THEN items[1]
    ELSE items[1] \o sep \o Join(Tail(items), sep)

-----------------------------------------------------------------------------
(* What the libraries make of a byte buffer.  A buffer is described by what *)
(* it holds: kind "text" (text), "pdf" (pages, each a list of text items),  *)
(* "docx" (value), "zip" (entries), "junk" (bytes no library can parse) or  *)
(* "corrupt" (an archive entry whose data cannot be read).                  *)

Thrown(message) == [threw |-> TRUE, message |-> message]
Returned(value) == [threw |-> FALSE, value |-> value]

TextBuf(text) == [kind |-> "text", text |-> text]
PdfBuf(pages) == [kind |-> "pdf", pages |-> pages]
DocxBuf(value) == [kind |-> "docx", value |-> value]
ZipBuf(entries) == [kind |-> "zip", entries |-> entries]
JunkBuf == [kind |-> "junk"]
CorruptBuf == [kind |-> "corrupt"]

\* file.text() / zipEntry.async('text'): decoding never rejects a readable buffer
ReadText(buf) ==
    CASE buf.kind = "corrupt" -> Thrown("read error")
      [] buf.kind = "text" -> Returned(buf.text)
      [] OTHER -> Returned(<<"?">>)

\* zipEntry.async('arraybuffer')
ReadBytes(buf) ==
    IF buf.kind = "corrupt" THEN Thrown("read error") ELSE Returned(buf)

RECURSIVE PdfPagesText(_)
\* the page loop: fullText += strings + '\n\n' for pages 1..numPages
PdfPagesText(pages) ==
    IF pages = <<>> THEN <<>>
    ELSE Join(Head(pages), <<" ">>) \o <<"\n", "\n">> \o PdfPagesText(Tail(pages))

extractTextFromPDFBuffer(buf) ==
    IF buf.kind # "pdf" THEN Thrown("Invalid PDF structure")
    ELSE Returned(Trim(PdfPagesText(buf.pages)))

extractTextFromDOCXBuffer(buf) ==
    IF buf.kind # "docx" THEN Thrown("Failed to parse DOCX file")
    ELSE Returned(buf.value)

-----------------------------------------------------------------------------
(* extractTextFromPDF and extractTextFromPDFBuffer, one statement at a time. *)
(* The two functions have the same body; variant "file" returns text and     *)
(* pageCount, variant "buffer" returns the text.                             *)

PrependPage(fullText, items) == Join(items, <<" ">>) \o <<"\n", "\n">> \o fullText

\* strings = items.map(item => item.str).join(' '); fullText += strings + '\n\n'
AppendPage(fullText, items) == fullText \o Join(items, <<" ">>) \o <<"\n", "\n">>

PdfIdle == [pc |-> "idle", variant |-> "file", data |-> JunkBuf, numPages |-> 0,
            i |-> 0, fullText |-> <<>>, fetched |-> <<>>, result |-> NULL]

\* await getDocument(...).promise: rejects when the bytes are not a PDF
PdfOpen ==
    /\ pdfRun.pc = "open"
    /\ IF pdfRun.data.kind # "pdf"
       THEN pdfRun' = [pdfRun EXCEPT !.pc = "done",
                          !.result = Thrown("Invalid PDF structure")]
       ELSE pdfRun' = [pdfRun EXCEPT !.pc = "loop", !.i = 1,
                          !.numPages = Len(pdfRun.data.pages)]
    /\ UNCHANGED <<appVars, zipRun>>

\* one iteration: await pdf.getPage(i), await page.getTextContent(), append
PdfPage ==
    /\ pdfRun.pc = "loop"
    /\ pdfRun.i <= pdfRun.numPages
    /\ pdfRun' = [pdfRun EXCEPT
                    !.fetched = Append(@, pdfRun.i),
                    !.fullText = AppendPage(@, pdfRun.data.pages[pdfRun.i]),
                    !.i = @ + 1]
    /\ UNCHANGED <<appVars, zipRun>>

\* the return after the loop
PdfReturn ==
    /\ pdfRun.pc = "loop"
    /\ pdfRun.i > pdfRun.numPages
    /\ pdfRun' = [pdfRun EXCEPT
                    !.pc = "done",
                    !.result =
                        IF pdfRun.variant = "file"
                        THEN Returned([text |-> Trim(pdfRun.fullText),
                                       pageCount |-> Defined(pdfRun.numPages)])
                        ELSE Returned(Trim(pdfRun.fullText))]
    /\ UNCHANGED <<appVars, zipRun>>

NextPdf == PdfOpen \/ PdfPage \/ PdfReturn

\* the pages the PDFs of the runs are made of: each a list of text items
PagePool ==
    { <<>>,
      << <<"a">> >>,
      << <<"b">>, <<"c", "d">> >>,
      << <<" ">> >> }

Pdfs ==
    UNION {[1..n -> PagePool] : n \in 0..MaxPages}

PdfInputs == {PdfBuf(pages) : pages \in Pdfs} \cup {JunkBuf}

-----------------------------------------------------------------------------
(* extractTextFromZIP *)

supportedExtensions == {<<".", "t", "x", "t">>, <<".", "p", "d", "f">>,
                        <<".", "d", "o", "c", "x">>}

\* filename.toLowerCase().substring(filename.lastIndexOf('.'))
\* the suffix taken without lower-casing the name
ExtensionCaseSensitive(filename) == Substring(filename, LastIndexOf(filename, "."))

\* filename.toLowerCase().substring(filename.lastIndexOf('.'))
Extension(filename) == Substring(ToLowerCase(filename), LastIndexOf(filename, "."))

LabelOpen == <<"\n", "\n", "-", "-", "-", " ">>
LabelClose == <<" ", "-", "-", "-", "\n">>
ErrorMarker == <<"[", "E", "r", "r", "o", "r", " ", "p", "r", "o", "c", "e", "s",
                 "s", "i", "n", "g", " ", "f", "i", "l", "e", "]">>

\* `\n\n--- ${filename} ---\n${content}`
Block(filename, content) == LabelOpen \o filename \o LabelClose \o content

\* the per-extension branch of the inner try: the text of one supported entry
EntryText(entry) ==
    LET extension == Extension(entry.name)
    IN  CASE extension = <<".", "t", "x", "t">> -> ReadText(entry.data)
          [] extension = <<".", "p", "d", "f">> ->
                IF ReadBytes(entry.data).threw THEN ReadBytes(entry.data)
                ELSE extractTextFromPDFBuffer(entry.data)
          [] OTHER ->
                IF ReadBytes(entry.data).threw THEN ReadBytes(entry.data)
                ELSE extractTextFromDOCXBuffer(entry.data)

\* an entry the loop does not skip
IsProcessed(entry) == ~entry.dir /\ Extension(entry.name) \in supportedExtensions

\* a catch that swallows the failure of an entry and appends nothing
EntryBlockSilent(entry) ==
    IF EntryText(entry).threw THEN <<>>
    ELSE Block(entry.name, EntryText(entry).value)

\* what one supported entry adds to combinedText: its labeled text, or, when
\* reading or extracting it throws, the labeled error marker
EntryBlock(entry) ==
    IF EntryText(entry).threw THEN Block(entry.name, ErrorMarker)
    ELSE Block(entry.name, EntryText(entry).value)

PrependBlock(combinedText, block) == block \o combinedText

\* combinedText += block
AppendBlock(combinedText, block) == combinedText \o block

\* the catch of the outer try: whatever was thrown inside extractTextFromZIP
\* is logged and replaced by one error
ZipCatch(error) == Thrown("Failed to parse ZIP file")

\* the end of the outer try, after the loop
ZipFinishResult(combinedText) ==
    IF Trim(combinedText) = <<>>
    THEN ZipCatch(Thrown("No supported text files found in ZIP archive"))
    ELSE Returned(Trim(combinedText))

RECURSIVE ZipCombined(_)
\* combinedText after the loop over Object.entries(zipContent.files)
ZipCombined(entries) ==
    IF entries = <<>> THEN <<>>
    ELSE LET n == Len(entries)
             before == ZipCombined(SubSeq(entries, 1, n - 1))
         IN  IF IsProcessed(entries[n])
             THEN AppendBlock(before, EntryBlock(entries[n]))
             ELSE before

\* extractTextFromZIP as a function of the file's buffer
extractTextFromZIP(buf) ==
    IF buf.kind # "zip" THEN ZipCatch(Thrown("Can't find end of central directory"))
    ELSE ZipFinishResult(ZipCombined(buf.entries))

-----------------------------------------------------------------------------
(* One run of extractTextFromZIP, one await at a time *)

ZipIdle == [pc |-> "idle", file |-> JunkBuf, i |-> 0, combinedText |-> <<>>,
            log |-> <<>>, result |-> NULL]

\* await zip.loadAsync(arrayBuffer)
ZipLoad ==
    /\ zipRun.pc = "load"
    /\ IF zipRun.file.kind # "zip"
       THEN zipRun' = [zipRun EXCEPT !.pc = "done",
                          !.result = ZipCatch(Thrown("Can't find end of central directory"))]
       ELSE zipRun' = [zipRun EXCEPT !.pc = "loop", !.i = 1]
    /\ UNCHANGED <<appVars, pdfRun>>

\* the head of the loop body: a directory or an unsupported extension is skipped
ZipSkipEntry ==
    /\ zipRun.pc = "loop"
    /\ zipRun.i <= Len(zipRun.file.entries)
    /\ ~IsProcessed(zipRun.file.entries[zipRun.i])
    /\ zipRun' = [zipRun EXCEPT !.i = @ + 1]
    /\ UNCHANGED <<appVars, pdfRun>>

\* a supported entry: its data is requested (await zipEntry.async)
ZipBeginEntry ==
    /\ zipRun.pc = "loop"
    /\ zipRun.i <= Len(zipRun.file.entries)
    /\ IsProcessed(zipRun.file.entries[zipRun.i])
    /\ zipRun' = [zipRun EXCEPT !.pc = "entry",
                                !.log = Append(@, <<"begin", zipRun.i>>)]
    /\ UNCHANGED <<appVars, pdfRun>>

\* the awaits of the entry settle: combinedText grows by the entry's block
ZipEndEntry ==
    /\ zipRun.pc = "entry"
    /\ zipRun' = [zipRun EXCEPT
                    !.pc = "loop",
                    !.combinedText =
                        AppendBlock(@, EntryBlock(zipRun.file.entries[zipRun.i])),
                    !.log = Append(@, <<"end", zipRun.i>>),
                    !.i = @ + 1]
    /\ UNCHANGED <<appVars, pdfRun>>

\* after the loop: the emptiness check and the return
ZipFinish ==
    /\ zipRun.pc = "loop"
    /\ zipRun.i > Len(zipRun.file.entries)
    /\ zipRun' = [zipRun EXCEPT !.pc = "done",
                                !.result = ZipFinishResult(zipRun.combinedText)]
    /\ UNCHANGED <<appVars, pdfRun>>

NextZip == ZipLoad \/ ZipSkipEntry \/ ZipBeginEntry \/ ZipEndEntry \/ ZipFinish

-----------------------------------------------------------------------------
(* Archive entries and archives the extractor is run on *)

EntryPool ==
    { [name |-> <<"a", ".", "t", "x", "t">>, dir |-> FALSE,
       data |-> TextBuf(<<"h", "i">>)],
      [name |-> <<"b", ".", "T", "X", "T">>, dir |-> FALSE,
       data |-> TextBuf(<<"y", "o", "\n">>)],
      [name |-> <<"c", ".", "p", "d", "f">>, dir |-> FALSE,
       data |-> PdfBuf(<< <<<<"p", "1">>, <<"x">>>>, <<<<"p", "2">>>> >>)],
      [name |-> <<"d", ".", "p", "d", "f">>, dir |-> FALSE, data |-> JunkBuf],
      [name |-> <<"e", ".", "d", "o", "c", "x">>, dir |-> FALSE,
       data |-> DocxBuf(<<"w">>)],
      [name |-> <<"f", ".", "t", "x", "t">>, dir |-> FALSE, data |-> CorruptBuf],
      [name |-> <<"g", ".", "j", "p", "g">>, dir |-> FALSE,
       data |-> JunkBuf],
      [name |-> <<"t", "x", "t">>, dir |-> FALSE, data |-> TextBuf(<<"n">>)],
      [name |-> <<"n", ".", "z", "i", "p">>, dir |-> FALSE,
       data |-> ZipBuf(<< [name |-> <<"a", ".", "t", "x", "t">>, dir |-> FALSE,
                           data |-> TextBuf(<<"h", "i">>)] >>)],
      [name |-> <<"s", "/">>, dir |-> TRUE, data |-> TextBuf(<<>>)] }

\* archives of at most MaxEntries entries; the names of an archive are its keys
Archives ==
    UNION { { s \in [1..n -> EntryPool] :
                \A i, j \in 1..n : i # j => s[i].name # s[j].name } :
            n \in 0..MaxEntries }

ZipInputs == {ZipBuf(entries) : entries \in Archives} \cup {JunkBuf}

-----------------------------------------------------------------------------
(* processFile: dispatch, extraction, metrics *)

PdfType == "application/pdf"
DocxType == "application/vnd.openxmlformats-officedocument.wordprocessingml.document"
TextType == "text/plain"
ZipType == "application/zip"

\* a dispatcher that reads a file of unknown type as plain text
DispatchLenient(file) ==
    CASE file.type = PdfType -> "pdf"
      [] file.type = DocxType -> "docx"
      [] file.type = ZipType \/ EndsWith(file.name, <<".", "z", "i", "p">>) -> "zip"
      [] OTHER -> "text"

\* the if / else-if chain on file.type and file.name
Dispatch(file) ==
    CASE file.type = PdfType -> "pdf"
      [] file.type = DocxType -> "docx"
      [] file.type = TextType -> "text"
      [] file.type = ZipType \/ EndsWith(file.name, <<".", "z", "i", "p">>) -> "zip"
      [] OTHER -> "unsupported"

\* a PDF extractor that reports no page count
extractTextFromPDFUncounted(file) ==
    IF file.data.kind # "pdf" THEN Thrown("Invalid PDF structure")
    ELSE Returned([text |-> Trim(PdfPagesText(file.data.pages)),
                   pageCount |-> Undefined])

extractTextFromPDF(file) ==
    IF file.data.kind # "pdf" THEN Thrown("Invalid PDF structure")
    ELSE Returned([text |-> Trim(PdfPagesText(file.data.pages)),
                   pageCount |-> Defined(Len(file.data.pages))])

\* a Word extractor that answers a parse failure with empty text
extractTextFromDOCXSilent(file) ==
    IF file.data.kind # "docx" THEN Returned(<<>>)
    ELSE Returned(file.data.value)

extractTextFromDOCX(file) ==
    IF file.data.kind # "docx" THEN Thrown("Failed to parse DOCX file")
    ELSE Returned(file.data.value)

\* the extractor processFile awaits: text and pageCount, or the error thrown
Extract(file) ==
    CASE Dispatch(file) = "pdf" -> extractTextFromPDF(file)
      [] Dispatch(file) = "docx" ->
            IF extractTextFromDOCX(file).threw THEN extractTextFromDOCX(file)
            ELSE Returned([text |-> extractTextFromDOCX(file).value,
                           pageCount |-> Undefined])
      [] Dispatch(file) = "text" ->
            Returned([text |-> ReadText(file.data).value, pageCount |-> Undefined])
      [] Dispatch(file) = "zip" ->
            IF extractTextFromZIP(file.data).threw THEN extractTextFromZIP(file.data)
            ELSE Returned([text |-> extractTextFromZIP(file.data).value,
                           pageCount |-> Undefined])
      [] OTHER -> Thrown("Unsupported file type")

\* an emptiness check that lets every text through
IsNeverBlank(text) == FALSE

\* !text || text.trim().length === 0
IsBlank(text) == text = <<>> \/ Len(Trim(text)) = 0

\* text.split(/\s+/).filter(word => word.length > 0).length
WordCount(text) ==
    Cardinality({i \in 1..Len(text) :
        /\ ~IsWhiteSpace(text[i])
        /\ (i = 1 \/ IsWhiteSpace(text[i - 1]))})

WordsPerMinute == 200

\* Math.floor in the place of Math.ceil
ReadingTimeFloor(wordCount) == wordCount \div WordsPerMinute

\* Math.ceil(wordCount / 200)
ReadingTime(wordCount) == (wordCount + WordsPerMinute - 1) \div WordsPerMinute

-----------------------------------------------------------------------------
(* The analysis service and the two analyzeWithGroq clients *)

\* A reply is its status and its first choice's message content; a content is
\* described by whether it is JSON text and, if so, by the value it denotes:
\* an object is a function from its keys, and the JSON text null denotes NULL.
\* Every string of an object is one word of the model.
JsonText(value) == [json |-> TRUE, value |-> value]
NotJson == [json |-> FALSE]
Reply(ok, content) == [ok |-> ok, content |-> content]

\* JSON.parse
JSONParse(content) ==
    IF content.json THEN Returned(content.value)
    ELSE Thrown("Unexpected token in JSON")

\* object.key: undefined when the key is absent
Get(object, key) == IF key \in DOMAIN object THEN Defined(object[key]) ELSE Undefined

\* a || b for a string a that may be undefined
OrElse(a, b) == IF a = Undefined \/ a = Defined("") THEN b ELSE a[1]

\* a || b for an array a that may be undefined (an array is never falsy)
OrElseArray(a, b) == IF a = Undefined THEN b ELSE a[1]

analysisKeys == {"classification", "summary", "tags", "sentiment", "insights", "graphs"}

\* the literal both clients return when JSON.parse throws
ParseFallback ==
    [classification |-> "Others",
     summary |-> "Document analyzed successfully.",
     tags |-> <<"document", "analyzed">>,
     sentiment |-> "neutral",
     insights |-> "Document has been processed and analyzed.",
     graphs |-> <<>>]

\* the literal the client of Index.tsx returns when anything in it throws
FailureFallback ==
    [classification |-> "Others",
     summary |-> "Document analysis failed.",
     tags |-> <<"document">>,
     sentiment |-> "neutral",
     insights |-> "Could not analyze the document content.",
     graphs |-> <<>>]

\* a client that turns a failed request into the parse fallback
analyzeLenient(reply) == Returned(ParseFallback)

\* a client that gives up on a reply it cannot parse
analyzeStrict(reply) ==
    IF ~reply.ok THEN Thrown("Groq API request failed")
    ELSE IF JSONParse(reply.content).threw THEN Thrown("Unexpected token in JSON")
    ELSE JSONParse(reply.content)

\* the number of characters of the document the clients cut the text to
RequestLimit == 4000

\* text.substring(0, 4000): the document text in the request of DocumentUpload.tsx
RequestTextUpload(text) ==
    SubSeq(text, 1, IF Len(text) < RequestLimit THEN Len(text) ELSE RequestLimit)

\* truncatedText: the document text in the request of Index.tsx
RequestTextIndex(text) ==
    IF Len(text) > RequestLimit
    THEN SubSeq(text, 1, RequestLimit) \o <<".", ".", ".">>
    ELSE text

\* analyzeWithGroq of DocumentUpload.tsx, as a function of the service's reply
analyzeWithGroqUpload(reply) ==
    IF ~reply.ok THEN Thrown("Groq API request failed")
    ELSE IF JSONParse(reply.content).threw THEN Returned(ParseFallback)
    ELSE JSONParse(reply.content)

\* analyzeWithGroq of Index.tsx: the same inside a try whose catch returns
\* FailureFallback
analyzeWithGroqIndex(reply) ==
    IF ~reply.ok THEN Returned(FailureFallback)
    ELSE IF JSONParse(reply.content).threw THEN Returned(ParseFallback)
    ELSE JSONParse(reply.content)

-----------------------------------------------------------------------------
(* Documents, the persisted entry, notifications *)

optionalKeys == {"type", "tags", "summary"}

\* the Document object processFile builds
\* a document whose id is not fresh
NewDocumentSameId(id, file, text, pageCount, analysis, day) ==
    [id |-> 0,
     name |-> file.name,
     type |-> Get(analysis, "classification"),
     tags |-> Get(analysis, "tags"),
     summary |-> Get(analysis, "summary"),
     fullText |-> text,
     date |-> day,
     metadata |-> [wordCount |-> WordCount(text),
                   pageCount |-> pageCount,
                   readingTime |-> ReadingTime(WordCount(text)),
                   sentiment |-> OrElse(Get(analysis, "sentiment"), "neutral")],
     insights |-> OrElse(Get(analysis, "insights"), ""),
     graphs |-> OrElseArray(Get(analysis, "graphs"), <<>>)]

NewDocument(id, file, text, pageCount, analysis, day) ==
    [id |-> id,
     name |-> file.name,
     type |-> Get(analysis, "classification"),
     tags |-> Get(analysis, "tags"),
     summary |-> Get(analysis, "summary"),
     fullText |-> text,
     date |-> day,
     metadata |-> [wordCount |-> WordCount(text),
                   pageCount |-> pageCount,
                   readingTime |-> ReadingTime(WordCount(text)),
                   sentiment |-> OrElse(Get(analysis, "sentiment"), "neutral")],
     insights |-> OrElse(Get(analysis, "insights"), ""),
     graphs |-> OrElseArray(Get(analysis, "graphs"), <<>>)]

\* an update that also stores the insights of the new analysis
UpdatedDocumentWithInsights(doc, analysis, day) ==
    [doc EXCEPT !.type = Get(analysis, "classification"),
                !.tags = Get(analysis, "tags"),
                !.summary = Get(analysis, "summary"),
                !.date = day,
                !.metadata = [doc.metadata EXCEPT
                    !.sentiment = OrElse(Get(analysis, "sentiment"), "neutral")],
                !.insights = OrElse(Get(analysis, "insights"), "")]

\* an update that also empties the text of the document
UpdatedDocumentRetexted(doc, analysis, day) ==
    [doc EXCEPT !.type = Get(analysis, "classification"),
                !.tags = Get(analysis, "tags"),
                !.summary = Get(analysis, "summary"),
                !.date = day,
                !.fullText = <<>>]

\* updatedDoc of handleReprocess: { ...doc, type, tags, summary, date, metadata }
UpdatedDocument(doc, analysis, day) ==
    [doc EXCEPT !.type = Get(analysis, "classification"),
                !.tags = Get(analysis, "tags"),
                !.summary = Get(analysis, "summary"),
                !.date = day,
                !.metadata = [doc.metadata EXCEPT
                    !.sentiment = OrElse(Get(analysis, "sentiment"), "neutral")]]

\* JSON.stringify of one document: a property whose value is undefined is left out
StringifyDocument(doc) ==
    LET meta == doc.metadata
        metaKeys == IF meta.pageCount = Undefined
                    THEN DOMAIN meta \ {"pageCount"} ELSE DOMAIN meta
        keys == {k \in DOMAIN doc : ~(k \in optionalKeys /\ doc[k] = Undefined)}
    IN  [k \in keys |->
            IF k \in optionalKeys THEN doc[k][1]
            ELSE IF k = "metadata"
                 THEN [m \in metaKeys |->
                          IF m = "pageCount" THEN meta.pageCount[1] ELSE meta[m]]
                 ELSE doc[k]]

\* JSON.parse of one document: reading a property that is absent gives undefined
ParseDocument(json) ==
    LET meta == json.metadata
    IN  [k \in DOMAIN json \cup optionalKeys |->
            IF k \in optionalKeys THEN Get(json, k)
            ELSE IF k = "metadata"
                 THEN [m \in DOMAIN meta \cup {"pageCount"} |->
                          IF m = "pageCount" THEN Get(meta, m) ELSE meta[m]]
                 ELSE json[k]]

\* JSON.stringify(docs) and JSON.parse(savedDocs)
JSONStringify(docs) == [array |-> [i \in 1..Len(docs) |-> StringifyDocument(docs[i])]]
JSONParseDocuments(json) == [i \in 1..Len(json.array) |-> ParseDocument(json.array[i])]

Ids(docs) == {docs[i].id : i \in 1..Len(docs)}
Elements(seq) == {seq[i] : i \in 1..Len(seq)}
RemoveAt(seq, i) == SubSeq(seq, 1, i - 1) \o SubSeq(seq, i + 1, Len(seq))

UploadFailedToast(message) ==
    [title |-> "Upload failed", description |-> message, variant |-> "destructive"]
AnalyzedToast ==
    [title |-> "Document analyzed successfully!",
     description |-> "has been processed and categorized", variant |-> "default"]
ProcessedToast ==
    [title |-> "Document processed successfully!",
     description |-> "Extracted words and analyzed with AI.", variant |-> "default"]
ReprocessedToast ==
    [title |-> "Document reprocessed!",
     description |-> "Analysis has been updated with latest results.",
     variant |-> "default"]
ReprocessFailedToast ==
    [title |-> "Reprocessing failed",
     description |-> "Could not reprocess the document. Please try again.",
     variant |-> "destructive"]
DeletedToast ==
    [title |-> "Document deleted",
     description |-> "Document has been removed from your collection.",
     variant |-> "default"]

-----------------------------------------------------------------------------
(* The files a user uploads and the replies the service gives *)

File(name, type, data) == [name |-> name, type |-> type, data |-> data]

NotesTxt == File(<<"n", ".", "t", "x", "t">>, TextType, TextBuf(<<"h", "i", " ", "y", "o">>))
BlankTxt == File(<<"e", ".", "t", "x", "t">>, TextType, TextBuf(<<" ", "\n">>))
UntypedTxt == File(<<"m", ".", "t", "x", "t">>, "", TextBuf(<<"o", "k">>))
PaperPdf ==
    File(<<"p", ".", "p", "d", "f">>, PdfType,
         PdfBuf(<< <<<<"p", "1">>, <<"x">>>>, <<<<"p", "2">>>> >>))
BrokenPdf == File(<<"q", ".", "p", "d", "f">>, PdfType, JunkBuf)
LetterDocx == File(<<"l", ".", "d", "o", "c", "x">>, DocxType, DocxBuf(<<"w">>))
BrokenDocx == File(<<"k", ".", "d", "o", "c", "x">>, DocxType, JunkBuf)
BundleZip ==
    File(<<"z", ".", "z", "i", "p">>, "",
         ZipBuf(<< [name |-> <<"a", ".", "t", "x", "t">>, dir |-> FALSE,
                    data |-> TextBuf(<<"h", "i">>)],
                   [name |-> <<"d", ".", "p", "d", "f">>, dir |-> FALSE,
                    data |-> JunkBuf] >>))
PhotosZip ==
    File(<<"j", ".", "z", "i", "p">>, ZipType,
         ZipBuf(<< [name |-> <<"g", ".", "j", "p", "g">>, dir |-> FALSE,
                    data |-> JunkBuf] >>))
ScansZip ==
    File(<<"y", ".", "z", "i", "p">>, ZipType,
         ZipBuf(<< [name |-> <<"c", ".", "p", "d", "f">>, dir |-> FALSE,
                    data |-> PdfBuf(<< <<<<"p", "1">>>>, <<<<"p", "2">>>> >>)] >>))
Photo == File(<<"i", ".", "p", "n", "g">>, "image/png", JunkBuf)

Files == {NotesTxt, BlankTxt, UntypedTxt, PaperPdf, BrokenPdf, LetterDocx,
          BrokenDocx, BundleZip, PhotosZip, ScansZip, Photo}

\* a text of n one-letter words, one space between two words
WordsText(n) == [k \in 1..(2 * n - 1) |-> IF k % 2 = 1 THEN "w" ELSE " "]

Words200 == File(<<"u", ".", "t", "x", "t">>, TextType, TextBuf(WordsText(200)))
Words201 == File(<<"v", ".", "t", "x", "t">>, TextType, TextBuf(WordsText(201)))
SpacedTxt ==
    File(<<"s", ".", "t", "x", "t">>, TextType,
         TextBuf(<<" ", "a", " ", "\n", "b", "c", "\n">>))

\* a text of n characters without white space
CharsText(n) == [k \in 1..n |-> "c"]

Chars4000 == File(<<"r", ".", "t", "x", "t">>, TextType, TextBuf(CharsText(RequestLimit)))
Chars4001 ==
    File(<<"o", ".", "t", "x", "t">>, TextType, TextBuf(CharsText(RequestLimit + 1)))

\* the files of the runs on the analysis request
RequestFiles == {NotesTxt, Chars4000, Chars4001}

\* the files of the runs on the metrics
MetricFiles == {NotesTxt, SpacedTxt, BlankTxt, Words200, Words201}

\* the files of the runs in which operations overlap
FewFiles == {NotesTxt, BlankTxt, Photo}

FullObject ==
    [classification |-> "Resume", summary |-> "A resume.",
     tags |-> <<"cv", "jobs", "skills">>, sentiment |-> "positive",
     insights |-> "Strong profile.", graphs |-> <<>>]
PartialObject == [summary |-> "A note.", tags |-> <<"note">>]

ReplyFull == Reply(TRUE, JsonText(FullObject))
ReplyPartial == Reply(TRUE, JsonText(PartialObject))
ReplyNull == Reply(TRUE, JsonText(NULL))
ReplyGarbage == Reply(TRUE, NotJson)
ReplyDown == Reply(FALSE, NotJson)

Replies == {ReplyFull, ReplyPartial, ReplyNull, ReplyGarbage, ReplyDown}

\* the replies of the runs in which operations overlap
FewReplies == {ReplyFull, ReplyGarbage, ReplyDown}

\* the document a previous session left in the persisted entry
StoredDocument ==
    NewDocument(0, NotesTxt, Extract(NotesTxt).value.text, Undefined, FullObject, 1)

-----------------------------------------------------------------------------
(* Index and DocumentUpload: the handlers *)

\* useState([]): the documents the closures of the first render see
FirstRenderDocuments == <<>>

\* The documents a handler's closure holds.  handleFileSelect, the reprocess
\* buttons and the delete buttons are those of the current render; handleDrop is
\* memoized with an empty dependency list, so it runs the processFile of the
\* first render, whose onDocumentUploaded closes over the initial state.
ClosureDocuments(via) == IF via = "drop" THEN FirstRenderDocuments ELSE documents

\* a processFile that asks for the analysis without extracting first
UploadOpUnextracted(via, file) ==
    [kind |-> "upload", via |-> via, pc |-> "analyze", docs |-> ClosureDocuments(via),
     file |-> file, doc |-> NULL, text |-> <<>>, pageCount |-> Undefined,
     sent |-> <<>>]

\* a processFile call; sent is the document text of its analysis request
UploadOp(via, file) ==
    [kind |-> "upload", via |-> via, pc |-> "extract", docs |-> ClosureDocuments(via),
     file |-> file, doc |-> NULL, text |-> <<>>, pageCount |-> Undefined,
     sent |-> <<>>]

\* a handleReprocess call: analyzeWithGroq(doc.fullText) of Index.tsx is awaited
ReprocessOp(via, doc) ==
    [kind |-> "reprocess", via |-> via, pc |-> "analyze", docs |-> ClosureDocuments(via),
     file |-> NULL, doc |-> doc, text |-> <<>>, pageCount |-> Undefined,
     sent |-> RequestTextIndex(doc.fullText)]

\* the file input is rendered, and enabled, only while isUploading is false
PickerEnabled == ~isUploading
\* the drop zone carries onDrop in every render
DropEnabled == TRUE
\* disabled={isUploading} / disabled={isProcessing} on the reprocess buttons
ReprocessEnabled == ~isUploading

\* useEffect(..., []) of Index: the persisted entry is read once, after mounting
Mount ==
    /\ ~mounted
    /\ mounted' = TRUE
    /\ documents' = IF storage = NULL THEN documents ELSE JSONParseDocuments(storage)
    /\ UNCHANGED <<selectedDocument, isUploading, storage, ops, nextId, calls, today,
                   toast, zipRun, pdfRun, deleted>>

\* a save that forgets the persisted entry
SaveToMemoryOnly(docs) ==
    /\ storage' = storage
    /\ documents' = docs

\* saveToStorage(docs)
SaveToStorage(docs) ==
    /\ storage' = JSONStringify(docs)
    /\ documents' = docs

\* processFile up to its first await.  An unsupported type throws before any
\* await: the catch and the finally run in the same call.
ProcessFileStart(via, file) ==
    /\ mounted
    /\ IF Dispatch(file) = "unsupported"
       THEN /\ toast' = <<UploadFailedToast("Unsupported file type")>>
            /\ isUploading' = FALSE
            /\ UNCHANGED <<ops, calls>>
       ELSE /\ Len(ops) < MaxOps
            /\ calls < MaxCalls
            /\ calls' = calls + 1
            /\ ops' = Append(ops, UploadOp(via, file))
            /\ isUploading' = TRUE
            /\ UNCHANGED toast
    /\ UNCHANGED <<mounted, documents, selectedDocument, storage, nextId, today,
                   zipRun, pdfRun, deleted>>

\* handleFileSelect
SelectFile(files) == \E file \in files : PickerEnabled /\ ProcessFileStart("picker", file)

\* handleDrop
DropFile(files) == \E file \in files : DropEnabled /\ ProcessFileStart("drop", file)

\* catch and finally of processFile
ProcessFileFails(i, message) ==
    /\ toast' = <<UploadFailedToast(message)>>
    /\ isUploading' = FALSE
    /\ ops' = RemoveAt(ops, i)
    /\ UNCHANGED <<mounted, documents, selectedDocument, storage, nextId, calls, today,
                   zipRun, pdfRun, deleted>>

\* the extractor settles: the emptiness check, the metrics, the request
ProcessFileExtracted(i) ==
    /\ ops[i].kind = "upload" /\ ops[i].pc = "extract"
    /\ LET result == Extract(ops[i].file)
       IN  IF result.threw
           THEN ProcessFileFails(i, result.message)
           ELSE IF IsBlank(result.value.text)
           THEN ProcessFileFails(i, "No text content found in the document")
           ELSE /\ ops' = [ops EXCEPT ![i] = [@ EXCEPT !.pc = "analyze",
                                !.text = result.value.text,
                                !.sent = RequestTextUpload(result.value.text),
                                !.pageCount = result.value.pageCount]]
                /\ UNCHANGED <<mounted, documents, selectedDocument, isUploading,
                               storage, nextId, calls, today, toast, zipRun, pdfRun, deleted>>

\* a handler that saves the collection it closed over and drops the new document
HandleDocumentUploadedDropsNew(newDoc, closureDocuments) ==
    SaveToStorage(closureDocuments)

\* handleDocumentUploaded(newDoc) of the render the running processFile belongs to
HandleDocumentUploaded(newDoc, closureDocuments) ==
    SaveToStorage(<<newDoc>> \o closureDocuments)

\* the service answers an upload: the document is built and handed to Index
ProcessFileAnalyzed(i, reply) ==
    /\ ops[i].kind = "upload" /\ ops[i].pc = "analyze"
    /\ LET analysis == analyzeWithGroqUpload(reply)
       IN  IF analysis.threw
           THEN ProcessFileFails(i, analysis.message)
           ELSE IF analysis.value = NULL
           THEN ProcessFileFails(i, "Cannot read properties of null")
           ELSE    /\ HandleDocumentUploaded(
                          NewDocument(nextId, ops[i].file, ops[i].text,
                                      ops[i].pageCount, analysis.value, today),
                          ops[i].docs)
                   /\ nextId' = nextId + 1
                   /\ toast' = <<AnalyzedToast, ProcessedToast>>
                   /\ isUploading' = FALSE
                   /\ ops' = RemoveAt(ops, i)
                   /\ UNCHANGED <<mounted, selectedDocument, calls, today, zipRun, pdfRun, deleted>>

\* handleReprocess(doc) up to its await
HandleReprocessStart(via, doc) ==
    /\ mounted
    /\ ReprocessEnabled
    /\ Len(ops) < MaxOps
    /\ calls < MaxCalls
    /\ calls' = calls + 1
    /\ isUploading' = TRUE
    /\ ops' = Append(ops, ReprocessOp(via, doc))
    /\ UNCHANGED <<mounted, documents, selectedDocument, storage, nextId, today,
                   toast, zipRun, pdfRun, deleted>>

\* the reprocess button of a card of the list
ReprocessFromList == \E i \in 1..Len(documents) : HandleReprocessStart("list", documents[i])

\* the reprocess button of the viewer: onReprocess(document)
ReprocessFromViewer ==
    /\ selectedDocument # NULL
    /\ HandleReprocessStart("viewer", selectedDocument)

\* the service answers a reprocess
HandleReprocessAnalyzed(i, reply) ==
    /\ ops[i].kind = "reprocess" /\ ops[i].pc = "analyze"
    /\ LET analysis == analyzeWithGroqIndex(reply)
           doc == ops[i].doc
       IN  /\ IF analysis.threw \/ analysis.value = NULL
              THEN /\ toast' = <<ReprocessFailedToast>>
                   /\ UNCHANGED <<documents, storage, selectedDocument>>
              ELSE LET updatedDoc == UpdatedDocument(doc, analysis.value, today)
                   IN  /\ SaveToStorage([k \in 1..Len(ops[i].docs) |->
                               IF ops[i].docs[k].id = doc.id THEN updatedDoc
                               ELSE ops[i].docs[k]])
                       /\ selectedDocument' = updatedDoc
                       /\ toast' = <<ReprocessedToast>>
           /\ isUploading' = FALSE
           /\ ops' = RemoveAt(ops, i)
           /\ UNCHANGED <<mounted, nextId, calls, today, zipRun, pdfRun, deleted>>

\* the pending request of an upload settles with some reply of the service
UploadAnalyzed(replies) ==
    \E i \in 1..Len(ops) : \E reply \in replies : ProcessFileAnalyzed(i, reply)

\* the pending request of a reprocess settles with some reply of the service
ReprocessAnalyzed(replies) ==
    \E i \in 1..Len(ops) : \E reply \in replies : HandleReprocessAnalyzed(i, reply)

ExtractorSettles == \E i \in 1..Len(ops) : ProcessFileExtracted(i)

\* a delete that closes the viewer whatever it shows
HandleDeleteClosing(docId) ==
    /\ mounted
    /\ SaveToStorage(SelectSeq(documents, LAMBDA d : d.id # docId))
    /\ selectedDocument' = NULL
    /\ toast' = <<DeletedToast>>
    /\ deleted' = deleted \cup {docId}
    /\ UNCHANGED <<mounted, isUploading, ops, nextId, calls, today, zipRun, pdfRun>>

\* handleDelete(docId)
HandleDelete(docId) ==
    /\ mounted
    /\ SaveToStorage(SelectSeq(documents, LAMBDA d : d.id # docId))
    /\ selectedDocument' =
          IF selectedDocument # NULL /\ selectedDocument.id = docId
          THEN NULL ELSE selectedDocument
    /\ toast' = <<DeletedToast>>
    /\ deleted' = deleted \cup {docId}
    /\ UNCHANGED <<mounted, isUploading, ops, nextId, calls, today, zipRun, pdfRun>>

\* the delete button of a card of the list
DeleteFromList == \E i \in 1..Len(documents) : HandleDelete(documents[i].id)

\* the delete button of the viewer: onDelete(document.id)
DeleteFromViewer == selectedDocument # NULL /\ HandleDelete(selectedDocument.id)

\* the View button of a card: setSelectedDocument(doc)
View ==
    /\ mounted
    /\ \E i \in 1..Len(documents) : selectedDocument' = documents[i]
    /\ UNCHANGED <<mounted, documents, isUploading, storage, ops, nextId, calls, today,
                   toast, zipRun, pdfRun, deleted>>

\* onClose of the viewer
Close ==
    /\ selectedDocument # NULL
    /\ selectedDocument' = NULL
    /\ UNCHANGED <<mounted, documents, isUploading, storage, ops, nextId, calls, today,
                   toast, zipRun, pdfRun, deleted>>

\* midnight passes
Tick ==
    /\ today < MaxDay
    /\ today' = today + 1
    /\ UNCHANGED <<mounted, documents, selectedDocument, isUploading, storage, ops,
                   nextId, calls, toast, zipRun, pdfRun, deleted>>

-----------------------------------------------------------------------------
(* Specifications *)

AppInit ==
    /\ mounted = FALSE
    /\ documents = <<>>
    /\ selectedDocument = NULL
    /\ isUploading = FALSE
    /\ ops = <<>>
    /\ nextId = 1
    /\ calls = 0
    /\ today = 1
    /\ toast = <<>>
    /\ deleted = {}

\* the page opens on an empty persisted entry or on one a previous session left
Init ==
    /\ AppInit
    /\ storage \in {NULL, JSONStringify(<<StoredDocument>>)}
    /\ zipRun = ZipIdle
    /\ pdfRun = PdfIdle

Next ==
    \/ Mount
    \/ SelectFile(FewFiles)
    \/ DropFile(FewFiles)
    \/ ExtractorSettles
    \/ UploadAnalyzed(FewReplies)
    \/ ReprocessAnalyzed(FewReplies)
    \/ ReprocessFromList
    \/ ReprocessFromViewer
    \/ DeleteFromList
    \/ DeleteFromViewer
    \/ View
    \/ Close
    \/ Tick

Spec == Init /\ [][Next]_vars

\* the same, with every await eventually settling: the extractor and the
\* analysis service answer or fail
SpecLive ==
    /\ Init
    /\ [][Next]_vars
    /\ WF_vars(ExtractorSettles)
    /\ WF_vars(UploadAnalyzed(FewReplies))
    /\ WF_vars(ReprocessAnalyzed(FewReplies))

\* the upload pipeline alone, on every file and every reply
NextUpload ==
    \/ Mount
    \/ SelectFile(Files)
    \/ ExtractorSettles
    \/ UploadAnalyzed(Replies)

SpecUpload == Init /\ [][NextUpload]_vars

\* uploads of texts of known length, and reprocesses of the documents they give
NextMetrics ==
    \/ Mount
    \/ SelectFile(MetricFiles)
    \/ ExtractorSettles
    \/ UploadAnalyzed({ReplyFull, ReplyDown})
    \/ ReprocessFromList
    \/ ReprocessAnalyzed({ReplyFull, ReplyGarbage})

SpecMetrics == Init /\ [][NextMetrics]_vars

\* uploads and reprocesses of texts around the length the clients cut to
NextRequest ==
    \/ Mount
    \/ SelectFile(RequestFiles)
    \/ ExtractorSettles
    \/ UploadAnalyzed({ReplyFull, ReplyGarbage})
    \/ ReprocessFromList
    \/ ReprocessAnalyzed({ReplyFull, ReplyGarbage})

SpecRequest == Init /\ [][NextRequest]_vars

\* the archive extractor alone, run on every archive of Archives
InitZip ==
    /\ AppInit
    /\ storage = NULL
    /\ zipRun \in {[ZipIdle EXCEPT !.pc = "load", !.file = f] : f \in ZipInputs}
    /\ pdfRun = PdfIdle

SpecZip == InitZip /\ [][NextZip]_vars

\* the PDF extractors alone, run on every PDF of Pdfs
InitPdf ==
    /\ AppInit
    /\ storage = NULL
    /\ zipRun = ZipIdle
    /\ pdfRun \in {[PdfIdle EXCEPT !.pc = "open", !.variant = v, !.data = d] :
                        v \in {"file", "buffer"}, d \in PdfInputs}

SpecPdf == InitPdf /\ [][NextPdf]_vars

-----------------------------------------------------------------------------
(* Claims C1 - C10 *)

\* C1: at most one upload or reprocess operation is in flight at any time,
\* whichever entry point started it.
C1_AtMostOneInFlight == Len(ops) <= 1

\* C2: every successful upload adds exactly one new record at the front of the
\* collection and keeps every record that was present just before it completed.
C2_UploadKeepsRecords ==
    [][\A i \in 1..Len(ops) : \A reply \in FewReplies :
        (ProcessFileAnalyzed(i, reply) /\ nextId' = nextId + 1) =>
            /\ Len(documents') = Len(documents) + 1
            /\ documents'[1].id = nextId
            /\ \A d \in Elements(documents) : d \in Elements(documents')]_vars

\* C3: when the service answers an upload's request with a non-success status,
\* the upload ends with the destructive "Upload failed" notification and the
\* collection and the persisted entry are what they were before.
C3_UploadServiceFailureSavesNothing ==
    [][\A i \in 1..Len(ops) : \A reply \in FewReplies :
        (~reply.ok /\ ProcessFileAnalyzed(i, reply)) =>
            /\ documents' = documents
            /\ storage' = storage
            /\ nextId' = nextId
            /\ Len(toast') = 1
            /\ toast'[1].title = "Upload failed"
            /\ toast'[1].description = "Groq API request failed"
            /\ toast'[1].variant = "destructive"]_vars

\* C3 witness: an upload has just failed on the service's non-success status
C3_Witness ==
    /\ toast = <<UploadFailedToast("Groq API request failed")>>
    /\ documents # <<>>
    /\ ops = <<>>

\* C4: when the service answers a reprocess request with a non-success status,
\* handleReprocess shows its failure notification and leaves the stored record
\* (type, tags, summary, date, sentiment) unchanged.
C4_ReprocessServiceFailureSurfaced ==
    [][\A i \in 1..Len(ops) : \A reply \in FewReplies :
        (~reply.ok /\ HandleReprocessAnalyzed(i, reply)) =>
            /\ toast' = <<ReprocessFailedToast>>
            /\ documents' = documents
            /\ storage' = storage]_vars

\* C5 as stated: on a successful reply whose content is not JSON the client
\* returns classification "Others", sentiment "neutral", the generic summary and
\* tags, EMPTY insights and an empty graphs list (seen in the document an upload
\* builds from the client's result).
C5_FallbackWithEmptyInsights ==
    [][\A i \in 1..Len(ops) : \A reply \in FewReplies :
        (reply.ok /\ ~reply.content.json /\ ProcessFileAnalyzed(i, reply)) =>
            /\ Len(documents') > 0
            /\ documents'[1].type = Defined("Others")
            /\ documents'[1].metadata.sentiment = "neutral"
            /\ documents'[1].insights = ""
            /\ documents'[1].graphs = <<>>]_vars

\* C5 amended: on a successful reply whose content is not JSON both clients
\* return, without raising, classification "Others", sentiment "neutral",
\* summary "Document analyzed successfully.", tags document and analyzed, the
\* generic insights text "Document has been processed and analyzed." and an
\* empty graphs list.  Upload stores all six values; reprocess stores the first
\* four.
C5_ParseFallback ==
    [][\A i \in 1..Len(ops) : \A reply \in FewReplies :
        (reply.ok /\ ~reply.content.json) =>
            /\ ProcessFileAnalyzed(i, reply) =>
                /\ Len(documents') > 0
                /\ documents'[1].id = nextId
                /\ documents'[1].type = Defined("Others")
                /\ documents'[1].summary = Defined("Document analyzed successfully.")
                /\ documents'[1].tags = Defined(<<"document", "analyzed">>)
                /\ documents'[1].metadata.sentiment = "neutral"
                /\ documents'[1].insights = "Document has been processed and analyzed."
                /\ documents'[1].graphs = <<>>
            /\ HandleReprocessAnalyzed(i, reply) =>
                /\ selectedDocument' # NULL
                /\ selectedDocument'.id = ops[i].doc.id
                /\ selectedDocument'.type = Defined("Others")
                /\ selectedDocument'.summary = Defined("Document analyzed successfully.")
                /\ selectedDocument'.tags = Defined(<<"document", "analyzed">>)
                /\ selectedDocument'.metadata.sentiment = "neutral"
                /\ toast' = <<ReprocessedToast>>]_vars

\* C5 witness: the stored document was reprocessed on a reply that is not JSON,
\* next to a document uploaded on such a reply
C5_Witness ==
    /\ selectedDocument # NULL
    /\ selectedDocument.id = 0
    /\ selectedDocument.summary = Defined("Document analyzed successfully.")
    /\ toast = <<ReprocessedToast>>
    /\ \E d \in Elements(documents) :
          d.id >= 1 /\ d.insights = "Document has been processed and analyzed."

\* C6: a reply whose content is JSON but lacks a required field makes the client
\* return the fallback record, so no saved document has an undefined type, tags
\* or summary.
C6_NoUndefinedFields ==
    \A d \in Elements(documents) :
        d.type # Undefined /\ d.tags # Undefined /\ d.summary # Undefined

\* C7: when extraction gave non-blank text and the reply is not JSON, the upload
\* completes: exactly one document is saved, with the extracted text, type
\* "Others" and sentiment "neutral".
C7_MalformedReplyStillSaves ==
    [][\A i \in 1..Len(ops) : \A reply \in FewReplies :
        (reply.ok /\ ~reply.content.json /\ ops[i].kind = "upload"
            /\ ops[i].pc = "analyze" /\ ops' = RemoveAt(ops, i)
            /\ ProcessFileAnalyzed(i, reply)) =>
            /\ ~IsBlank(ops[i].text)
            /\ Cardinality({k \in 1..Len(documents') : documents'[k].id = nextId}) = 1
            /\ nextId \notin Ids(ops[i].docs)
            /\ Len(documents') = Len(ops[i].docs) + 1
            /\ documents'[1].id = nextId
            /\ documents'[1].fullText = Extract(ops[i].file).value.text
            /\ documents'[1].type = Defined("Others")
            /\ documents'[1].metadata.sentiment = "neutral"
            /\ storage' = JSONStringify(documents')
            /\ toast' = <<AnalyzedToast, ProcessedToast>>]_vars

\* C7 witness: a document saved by an upload whose reply was not JSON
C7_Witness ==
    /\ toast = <<AnalyzedToast, ProcessedToast>>
    /\ documents # <<>>
    /\ documents[1].type = Defined("Others")
    /\ documents[1].fullText = <<"h", "i", " ", "y", "o">>

\* the entries of the archive being extracted that the loop does not skip
ProcessedEntries ==
    {k \in 1..Len(zipRun.file.entries) : IsProcessed(zipRun.file.entries[k])}

\* C8: one entry's failure does not fail the extraction.  When the archive has
\* a supported entry, whichever of them fail, the call returns; every supported
\* entry was worked on; the combined text holds the error block
\* "\n\n--- <name> ---\n[Error processing file]" of each failed entry and the
\* labeled text of each entry that succeeded; the returned text is the trimmed
\* combined text and contains the text of each entry that succeeded.
C8_PartialFailureTolerant ==
    (zipRun.pc = "done" /\ zipRun.file.kind = "zip" /\ ProcessedEntries # {}) =>
        /\ ~zipRun.result.threw
        /\ zipRun.result.value = Trim(zipRun.combinedText)
        /\ \A k \in ProcessedEntries :
              LET entry == zipRun.file.entries[k]
                  label == LabelOpen \o entry.name \o LabelClose
              IN  /\ \E n \in 1..Len(zipRun.log) : zipRun.log[n] = <<"end", k>>
                  /\ IF EntryText(entry).threw
                     THEN Contains(zipRun.combinedText, label \o ErrorMarker)
                     ELSE /\ Contains(zipRun.combinedText,
                                      label \o EntryText(entry).value)
                          /\ Contains(zipRun.result.value,
                                      TrimEnd(EntryText(entry).value))

\* C8 witness: an archive whose first entry was read and whose second entry
\* failed has been extracted
C8_Witness ==
    /\ zipRun.pc = "done"
    /\ zipRun.file.kind = "zip"
    /\ Len(zipRun.file.entries) = 2
    /\ IsProcessed(zipRun.file.entries[1])
    /\ ~EntryText(zipRun.file.entries[1]).threw
    /\ IsProcessed(zipRun.file.entries[2])
    /\ EntryText(zipRun.file.entries[2]).threw
    /\ ~zipRun.result.threw
    /\ Contains(zipRun.result.value, ErrorMarker)

\* C9: an archive that opens but holds no supported entry fails with the error
\* "No supported text files found in ZIP archive", not with the error of an
\* archive that cannot be opened.
C9_NoSupportedEntriesSurfaced ==
    (zipRun.pc = "done" /\ zipRun.file.kind = "zip" /\ ProcessedEntries = {}) =>
        /\ zipRun.result.threw
        /\ zipRun.result.message = "No supported text files found in ZIP archive"

RECURSIVE BlocksUpTo(_, _)
\* the labeled blocks of the supported entries among the first k, in the
\* archive's enumeration order
BlocksUpTo(entries, k) ==
    IF k = 0 THEN <<>>
    ELSE BlocksUpTo(entries, k - 1) \o
         (IF IsProcessed(entries[k])
          THEN LabelOpen \o entries[k].name \o LabelClose \o
               (IF EntryText(entries[k]).threw THEN ErrorMarker
                ELSE EntryText(entries[k]).value)
          ELSE <<>>)

\* C10: archive extraction keeps the enumeration order.  The combined text is
\* always the concatenation, in enumeration order, of the labeled blocks of the
\* supported entries finished so far; work on an entry begins only after every
\* earlier entry has ended; the returned text is the trimmed concatenation over
\* the whole archive.
C10_OrderPreserving ==
    zipRun.pc \in {"loop", "entry", "done"} /\ zipRun.file.kind = "zip" =>
        /\ zipRun.combinedText = BlocksUpTo(zipRun.file.entries, zipRun.i - 1)
        /\ \A n \in 1..Len(zipRun.log) :
              /\ zipRun.log[n][1] = (IF n % 2 = 1 THEN "begin" ELSE "end")
              /\ n % 2 = 0 => zipRun.log[n][2] = zipRun.log[n - 1][2]
              /\ (n % 2 = 1 /\ n > 2) => zipRun.log[n][2] > zipRun.log[n - 2][2]
        /\ (zipRun.pc = "done" /\ ~zipRun.result.threw) =>
              zipRun.result.value =
                  Trim(BlocksUpTo(zipRun.file.entries, Len(zipRun.file.entries)))

\* C10 witness: an archive of two supported entries has been extracted
C10_Witness ==
    /\ zipRun.pc = "done"
    /\ Len(zipRun.log) = 4
    /\ zipRun.log[3] = <<"begin", 2>>
    /\ ~zipRun.result.threw
    /\ ~EntryText(zipRun.file.entries[1]).threw
    /\ ~EntryText(zipRun.file.entries[2]).threw

RECURSIVE PagesInOrder(_, _)
\* pages 1..n in ascending order, each its items joined by one space, with a
\* blank line between consecutive pages
PagesInOrder(pages, n) ==
    IF n = 0 THEN <<>>
    ELSE IF n = 1 THEN Join(pages[1], <<" ">>)
    ELSE PagesInOrder(pages, n - 1) \o <<"\n", "\n">> \o Join(pages[n], <<" ">>)

\* C11: PDF extraction preserves page order.  The pages fetched so far are
\* 1, 2, ... in ascending order, one per step; for an N-page PDF the returned
\* text is the trimmed concatenation of pages 1..N in that order (items joined
\* by one space, pages separated by a blank line), the file variant reports
\* pageCount N, and the buffer variant returns the same text.
C11_PdfPageOrder ==
    (pdfRun.pc \in {"loop", "done"} /\ pdfRun.data.kind = "pdf") =>
        LET pages == pdfRun.data.pages
            N == Len(pages)
            expected == Trim(PagesInOrder(pages, N))
        IN  /\ pdfRun.fetched = [k \in 1..(pdfRun.i - 1) |-> k]
            /\ pdfRun.pc = "done" =>
                /\ pdfRun.i = N + 1
                /\ ~pdfRun.result.threw
                /\ IF pdfRun.variant = "file"
                   THEN /\ pdfRun.result.value.text = expected
                        /\ pdfRun.result.value.pageCount = Defined(N)
                   ELSE pdfRun.result.value = expected
                /\ extractTextFromPDFBuffer(pdfRun.data) = Returned(expected)
                /\ extractTextFromPDF(File(<<"x">>, PdfType, pdfRun.data)) =
                      Returned([text |-> expected, pageCount |-> Defined(N)])

\* C11 witness: the buffer variant has returned the text of a PDF of three
\* pages, the first two different
C11_Witness ==
    /\ pdfRun.pc = "done"
    /\ pdfRun.variant = "buffer"
    /\ pdfRun.data.kind = "pdf"
    /\ Len(pdfRun.data.pages) = 3
    /\ pdfRun.data.pages[1] = << <<"b">>, <<"c", "d">> >>
    /\ pdfRun.data.pages[2] = << <<"a">> >>
    /\ pdfRun.fetched = <<1, 2, 3>>

\* what the extractor of the file's own kind gives for the file
OwnExtractor(file) ==
    CASE file.type = PdfType ->
            IF extractTextFromPDF(file).threw THEN extractTextFromPDF(file)
            ELSE Returned(extractTextFromPDF(file).value.text)
      [] file.type = DocxType -> extractTextFromDOCX(file)
      [] file.type = TextType -> ReadText(file.data)
      [] OTHER -> extractTextFromZIP(file.data)

\* a file of none of the four kinds: not one of the three media types of PDF,
\* Word and plain text, and neither the zip media type nor a name ending in .zip
NoRecognizedKind(file) ==
    /\ file.type \notin {PdfType, DocxType, TextType, ZipType}
    /\ ~EndsWith(file.name, <<".", "z", "i", "p">>)

\* C12: a file of none of the four recognized kinds makes processFile fail with
\* "Unsupported file type": nothing is left awaiting (no extractor, no analysis
\* request) and the collection and the persisted entry are unchanged.  A file
\* of a recognized kind is given to the extractor of its kind: what processFile
\* goes on with, or fails with, is that extractor's outcome.
C12_UnsupportedFormat ==
    [][/\ \A file \in Files :
            (NoRecognizedKind(file) /\ ProcessFileStart("picker", file)) =>
                /\ toast' = <<UploadFailedToast("Unsupported file type")>>
                /\ toast'[1].variant = "destructive"
                /\ ops' = ops
                /\ ~isUploading'
                /\ documents' = documents
                /\ storage' = storage
        /\ \A i \in 1..Len(ops) :
            (ops[i].pc = "extract" /\ ProcessFileExtracted(i)) =>
                LET own == OwnExtractor(ops[i].file)
                IN  /\ ~NoRecognizedKind(ops[i].file)
                    /\ IF own.threw
                       THEN toast' = <<UploadFailedToast(own.message)>>
                       ELSE IF Trim(own.value) = <<>>
                       THEN ops' = RemoveAt(ops, i)
                       ELSE /\ ops'[i].pc = "analyze"
                            /\ ops'[i].text = own.value]_vars

\* C12 witness: a file of no recognized kind has just been turned away
C12_Witness ==
    /\ mounted
    /\ toast = <<UploadFailedToast("Unsupported file type")>>
    /\ ops = <<>>
    /\ ~isUploading

\* C13: when the extracted text is empty or only white space, processFile fails
\* with "No text content found in the document" without an analysis request and
\* without saving; every document of the collection has a non-blank fullText.
C13_EmptyContent ==
    [][/\ \A i \in 1..Len(ops) :
            (/\ ops[i].pc = "extract"
             /\ ~OwnExtractor(ops[i].file).threw
             /\ Trim(OwnExtractor(ops[i].file).value) = <<>>
             /\ ProcessFileExtracted(i)) =>
                /\ toast' = <<UploadFailedToast("No text content found in the document")>>
                /\ toast'[1].variant = "destructive"
                /\ ops' = RemoveAt(ops, i)
                /\ documents' = documents
                /\ storage' = storage
        /\ \A d \in Elements(documents') : Trim(d.fullText) # <<>>]_vars

\* C13 witness: an upload has just failed on blank text
C13_Witness ==
    /\ toast = <<UploadFailedToast("No text content found in the document")>>
    /\ ops = <<>>
    /\ documents # <<>>

\* C14: a file whose media type is missing or unrecognized and whose name has
\* a supported extension (.txt, .pdf, .docx, .zip) is not rejected as
\* unsupported: processFile goes on to extract it.
C14_ExtensionFallback ==
    [][\A file \in Files :
        (/\ file.type \notin {PdfType, DocxType, TextType, ZipType}
         /\ Extension(file.name) \in
                supportedExtensions \cup {<<".", "z", "i", "p">>}
         /\ ProcessFileStart("picker", file)) =>
            /\ toast' # <<UploadFailedToast("Unsupported file type")>>
            /\ Len(ops') = Len(ops) + 1]_vars

\* C15: reprocess round trip.  When a reprocess of a document of the
\* collection completes, the collection has the same length and the same ids
\* in the same order as the collection the reprocess was started on, every
\* record has the fullText it had, and the reprocessed record, at its old
\* position, differs from what it was at most in type, tags, summary,
\* sentiment and date.
C15_ReprocessRoundTrip ==
    [][\A i \in 1..Len(ops) : \A reply \in FewReplies :
        (/\ ops[i].kind = "reprocess"
         /\ ops[i].doc.id \in Ids(ops[i].docs)
         /\ HandleReprocessAnalyzed(i, reply)
         /\ toast' = <<ReprocessedToast>>) =>
            LET before == ops[i].docs
            IN  /\ Len(documents') = Len(before)
                /\ \A k \in 1..Len(before) :
                      /\ documents'[k].id = before[k].id
                      /\ documents'[k].fullText = before[k].fullText
                      /\ before[k].id = ops[i].doc.id =>
                            /\ documents'[k].name = before[k].name
                            /\ documents'[k].insights = before[k].insights
                            /\ documents'[k].graphs = before[k].graphs
                            /\ documents'[k].metadata.wordCount =
                                  before[k].metadata.wordCount
                            /\ documents'[k].metadata.pageCount =
                                  before[k].metadata.pageCount
                            /\ documents'[k].metadata.readingTime =
                                  before[k].metadata.readingTime
                /\ selectedDocument'.id = ops[i].doc.id
                /\ selectedDocument'.fullText = ops[i].doc.fullText]_vars

\* C15 witness: the second of two documents has been reprocessed and is still
\* the second
C15_Witness ==
    /\ toast = <<ReprocessedToast>>
    /\ Len(documents) = 2
    /\ selectedDocument # NULL
    /\ documents[2] = selectedDocument
    /\ documents[2].id = 0
    /\ documents[2].summary = Defined("Document analyzed successfully.")

\* C16: persistence.  The persisted entry is read by the mount effect alone,
\* which runs once and initialises the collection from it; after that, every
\* step that changes the collection or the entry leaves in the entry exactly
\* the JSON array of the whole collection.
C16_PersistedEntry ==
    [][/\ mounted => mounted'
       /\ (~mounted /\ mounted') =>
            /\ storage' = storage
            /\ documents' = IF storage = NULL THEN <<>>
                            ELSE JSONParseDocuments(storage)
       /\ (mounted /\ (documents' # documents \/ storage' # storage)) =>
            /\ storage' # NULL
            /\ storage' = JSONStringify(documents')
            /\ JSONParseDocuments(storage') = documents']_vars

\* C16 witness: a delete has left one of two documents, in memory and in the
\* persisted entry
C16_Witness ==
    /\ mounted
    /\ toast = <<DeletedToast>>
    /\ Len(documents) = 1
    /\ documents[1].id = 1
    /\ storage = JSONStringify(documents)

\* C17: every failure path returns to an idle, retry-ready state.  Operations
\* in flight eventually finish; a step that finishes an operation leaves
\* isUploading false; and when the operation failed (the extractor threw, the
\* text was blank, or the service answered with a non-success status) the
\* step shows a destructive notification.
C17_FailuresReturnToIdle ==
    /\ (ops # <<>>) ~> (ops = <<>>)
    /\ [][\A i \in 1..Len(ops) : \A reply \in FewReplies :
            /\ (ProcessFileExtracted(i) /\ ops' = RemoveAt(ops, i)) =>
                  /\ ~isUploading'
                  /\ Len(toast') = 1 /\ toast'[1].variant = "destructive"
            /\ (ProcessFileAnalyzed(i, reply) \/ HandleReprocessAnalyzed(i, reply)) =>
                  /\ ~isUploading'
                  /\ ops' = RemoveAt(ops, i)
                  /\ ~reply.ok =>
                        Len(toast') = 1 /\ toast'[1].variant = "destructive"]_vars

\* the white-space-delimited non-empty tokens of a text, counted at their ends
Tokens(text) ==
    Cardinality({k \in 1..Len(text) :
        /\ ~IsWhiteSpace(text[k])
        /\ (k = Len(text) \/ IsWhiteSpace(text[k + 1]))})

\* C18: metrics.  Every document of the collection, reprocessed or not, has
\* wordCount equal to the number of white-space-delimited non-empty tokens of
\* its fullText and readingTime equal to the ceiling of wordCount / 200 (1 for
\* 200 words, 2 for 201), both at least 1.
C18_Metrics ==
    \A d \in Elements(documents) :
        LET wordCount == d.metadata.wordCount
            readingTime == d.metadata.readingTime
        IN  /\ wordCount = Tokens(d.fullText)
            /\ wordCount >= 1
            /\ readingTime >= 1
            /\ 200 * (readingTime - 1) < wordCount
            /\ wordCount <= 200 * readingTime
            /\ wordCount = 200 => readingTime = 1
            /\ wordCount = 201 => readingTime = 2

\* C18 witness: a document of 201 words has been uploaded and reprocessed
C18_Witness ==
    /\ toast = <<ReprocessedToast>>
    /\ selectedDocument # NULL
    /\ selectedDocument.metadata.wordCount = 201
    /\ selectedDocument.metadata.readingTime = 2
    /\ selectedDocument \in Elements(documents)

\* the file of Files a document was created from: the names are distinct
SourceFiles(d) == {file \in Files : file.name = d.name}

\* C19: a saved document has a pageCount exactly when its file went directly
\* to the PDF extractor (its media type is application/pdf), and then it is the
\* PDF's number of pages; a document made from an archive, also one with a PDF
\* entry, from plain text or from a Word file has none.
C19_PageCount ==
    \A d \in Elements(documents) :
        /\ Cardinality(SourceFiles(d)) = 1
        /\ \A file \in SourceFiles(d) :
              IF file.type = PdfType
              THEN /\ file.data.kind = "pdf"
                   /\ d.metadata.pageCount = Defined(Len(file.data.pages))
              ELSE d.metadata.pageCount = Undefined

\* C19 witness: a document made from a PDF of two pages lies behind one made
\* from an archive that holds a PDF
C19_Witness ==
    /\ Len(documents) >= 2
    /\ documents[1].name = ScansZip.name
    /\ documents[1].metadata.pageCount = Undefined
    /\ Contains(documents[1].fullText, <<"p", "2">>)
    /\ documents[2].name = PaperPdf.name
    /\ documents[2].metadata.pageCount = Defined(2)

\* C20: when the PDF reader cannot open a directly uploaded PDF, or the Word
\* library raises on a directly uploaded Word file, processFile ends with the
\* destructive "Upload failed" notification carrying the parse error (for
\* Word: "Failed to parse DOCX file"), never the empty-content one, without an
\* analysis request and without saving a document.
C20_MalformedInput ==
    [][\A i \in 1..Len(ops) :
        (/\ ops[i].pc = "extract"
         /\ \/ ops[i].file.type = PdfType /\ ops[i].file.data.kind # "pdf"
            \/ ops[i].file.type = DocxType /\ ops[i].file.data.kind # "docx"
         /\ ProcessFileExtracted(i)) =>
            /\ Len(toast') = 1
            /\ toast'[1].title = "Upload failed"
            /\ toast'[1].variant = "destructive"
            /\ toast'[1].description # "No text content found in the document"
            /\ toast'[1].description # ""
            /\ ops[i].file.type = DocxType =>
                  toast'[1].description = "Failed to parse DOCX file"
            /\ ops' = RemoveAt(ops, i)
            /\ ~isUploading'
            /\ documents' = documents
            /\ storage' = storage
            /\ nextId' = nextId]_vars

\* C20 witness: the upload of a Word file that cannot be parsed has just failed
C20_Witness ==
    /\ toast = <<UploadFailedToast("Failed to parse DOCX file")>>
    /\ ops = <<>>
    /\ ~isUploading
    /\ mounted

\* C21: the order of the steps of one processFile run.  A run starts at the
\* extraction; it waits for the analysis only with the non-blank text its
\* extractor returned; a document gets into the collection only in the step in
\* which a run that waited for the analysis ends, with the metrics of that
\* text, and the run is gone after that step, so it saves at most once.
C21_PipelineOrder ==
    [][/\ (Len(ops') = Len(ops) + 1 /\ ops'[Len(ops')].kind = "upload") =>
            /\ ops'[Len(ops')].pc = "extract"
            /\ documents' = documents
       /\ \A i \in 1..Len(ops') :
            (ops'[i].kind = "upload" /\ ops'[i].pc = "analyze") =>
                /\ Trim(ops'[i].text) # <<>>
                /\ ~Extract(ops'[i].file).threw
                /\ ops'[i].text = Extract(ops'[i].file).value.text
       /\ \A d \in Elements(documents) : d.id < nextId
       /\ nextId' # nextId => nextId \in Ids(documents')
       /\ nextId \in Ids(documents') =>
            /\ nextId' = nextId + 1
            /\ \E i \in 1..Len(ops) :
                  /\ ops[i].kind = "upload"
                  /\ ops[i].pc = "analyze"
                  /\ ops' = RemoveAt(ops, i)
                  /\ documents'[1].id = nextId
                  /\ documents'[1].fullText = ops[i].text
                  /\ documents'[1].metadata.wordCount = WordCount(ops[i].text)
                  /\ documents'[1].metadata.readingTime =
                        ReadingTime(WordCount(ops[i].text))]_vars

\* C21 witness: one run has saved its document while another one still waits
\* for its analysis
C21_Witness ==
    /\ toast = <<AnalyzedToast, ProcessedToast>>
    /\ documents # <<>>
    /\ documents[1].id = nextId - 1
    /\ Len(ops) = 1
    /\ ops[1].kind = "upload"
    /\ ops[1].pc = "analyze"

\* the part of a name from its last '.' on; the whole name when it has none
SuffixFromLastDot(name) ==
    LET dots == {j \in 1..Len(name) : name[j] = "."}
    IN  IF dots = {} THEN name
        ELSE SubSeq(name, CHOOSE j \in dots : \A m \in dots : m <= j, Len(name))

\* C22: archive entry selection.  When the extractor is done with an archive, an
\* entry was worked on and has its labeled block in the combined text if and
\* only if it is not a directory and the lower-cased suffix of its name from
\* the last '.' is .txt, .pdf or .docx; every other entry left no trace, and
\* skipping raised no error.
C22_EntrySelection ==
    (zipRun.pc = "done" /\ zipRun.file.kind = "zip") =>
        LET entries == zipRun.file.entries
            Selected(k) ==
                /\ ~entries[k].dir
                /\ ToLowerCase(SuffixFromLastDot(entries[k].name)) \in
                      {<<".", "t", "x", "t">>, <<".", "p", "d", "f">>,
                       <<".", "d", "o", "c", "x">>}
        IN  /\ \A k \in 1..Len(entries) :
                  /\ Selected(k) <=>
                        \E n \in 1..Len(zipRun.log) : zipRun.log[n] = <<"begin", k>>
                  /\ Selected(k) <=>
                        \E n \in 1..Len(zipRun.log) : zipRun.log[n] = <<"end", k>>
                  /\ Selected(k) <=>
                        Contains(zipRun.combinedText,
                                 LabelOpen \o entries[k].name \o LabelClose)
            /\ (\E k \in 1..Len(entries) : Selected(k)) => ~zipRun.result.threw

\* C22 witness: of an archive with an upper-case .TXT entry and a nested .zip
\* entry, the first was worked on and the second was skipped
C22_Witness ==
    /\ zipRun.pc = "done"
    /\ zipRun.file.kind = "zip"
    /\ Len(zipRun.file.entries) = 2
    /\ zipRun.file.entries[1].name = <<"b", ".", "T", "X", "T">>
    /\ zipRun.file.entries[2].name = <<"n", ".", "z", "i", "p">>
    /\ zipRun.log = << <<"begin", 1>>, <<"end", 1>> >>
    /\ zipRun.result = Returned(<<"-", "-", "-", " ", "b", ".", "T", "X", "T", " ",
                                  "-", "-", "-", "\n", "y", "o">>)

\* C23: the effect of handleDelete(id).  The collection loses exactly the
\* records with that id: every other record stays, unchanged and in the same
\* relative order, and nothing is added; the selection becomes null if the
\* selected document has that id and is left alone otherwise; isUploading and
\* the running operations are untouched.
C23_DeleteEffect ==
    [][\A docId \in Ids(documents) \cup
                    (IF selectedDocument = NULL THEN {} ELSE {selectedDocument.id}) :
        HandleDelete(docId) =>
            /\ \A d \in Elements(documents) :
                  d.id # docId <=> d \in Elements(documents')
            /\ Elements(documents') \subseteq Elements(documents)
            /\ Len(documents') =
                  Cardinality({k \in 1..Len(documents) : documents[k].id # docId})
            /\ \A a, b \in 1..Len(documents') :
                  a < b => \E x, y \in 1..Len(documents) :
                              /\ x < y
                              /\ documents[x] = documents'[a]
                              /\ documents[y] = documents'[b]
            /\ IF selectedDocument # NULL /\ selectedDocument.id = docId
               THEN selectedDocument' = NULL
               ELSE selectedDocument' = selectedDocument
            /\ isUploading' = isUploading
            /\ ops' = ops]_vars

\* C23 witness: a delete during a running operation has left the selected
\* document shown and the busy flag set
C23_Witness ==
    /\ toast = <<DeletedToast>>
    /\ selectedDocument # NULL
    /\ isUploading
    /\ ops # <<>>
    /\ selectedDocument \in Elements(documents)

\* C24: the document text of every analysis request is exactly the first
\* min(length, 4000) characters of the text, with nothing appended, for the
\* request of an upload (the extracted text) and for the request of a
\* reprocess (the document's fullText).
C24_RequestText ==
    \A i \in 1..Len(ops) :
        ops[i].pc = "analyze" =>
            LET text == IF ops[i].kind = "upload" THEN ops[i].text
                        ELSE ops[i].doc.fullText
                length == IF Len(text) < 4000 THEN Len(text) ELSE 4000
            IN  /\ Len(ops[i].sent) = length
                /\ \A k \in 1..length : ops[i].sent[k] = text[k]

\* C25: a deleted document never reappears.  Once handleDelete(id) has run,
\* neither the collection nor the persisted entry holds a record with that id,
\* and the selection is not a document with that id.
C25_DeletedStaysDeleted ==
    \A id \in deleted :
        /\ id \notin Ids(documents)
        /\ storage = NULL \/ id \notin Ids(JSONParseDocuments(storage))
        /\ selectedDocument = NULL \/ selectedDocument.id # id

\* C26: busy flag.  isUploading is true in every state in which an upload or
\* a reprocess is in flight.
C26_BusyWhileInFlight == ops # <<>> => isUploading

\* C27: selection consistency.  The selected document is null or equal to a
\* record of the collection (the one with its id).
C27_SelectionInCollection ==
    selectedDocument # NULL =>
        \E k \in 1..Len(documents) : documents[k] = selectedDocument

\* C28: identity uniqueness.  No two records of the collection, and no two of
\* the persisted entry, share an id; the id an upload assigns is not the id of
\* any record of the collection it is added to.
C28_UniqueIds ==
    /\ \A a, b \in 1..Len(documents) : a # b => documents[a].id # documents[b].id
    /\ storage # NULL =>
          LET stored == JSONParseDocuments(storage)
          IN  \A a, b \in 1..Len(stored) : a # b => stored[a].id # stored[b].id

\* C28 witness: two uploads have completed on the stored collection, the
\* second on the collection it captured before the first completed
C28_Witness ==
    /\ Len(documents) = 2
    /\ documents[1].id = 2
    /\ documents[2].id = 0
    /\ nextId = 3
    /\ ops = <<>>
    /\ toast = <<AnalyzedToast, ProcessedToast>>

\* C29: reprocess frame.  When a reprocess completes, the record with the id
\* of the reprocessed document differs from what it was in the collection the
\* reprocess was started on at most in type, tags, summary, date and
\* metadata.sentiment: name, fullText, metadata.wordCount, metadata.pageCount,
\* metadata.readingTime, insights and graphs are the previous ones, not those
\* of the new analysis; date is the current day; every other record of that
\* collection is in the collection unchanged, and no record is added.
C29_ReprocessFrame ==
    [][\A i \in 1..Len(ops) : \A reply \in FewReplies :
        (/\ ops[i].kind = "reprocess"
         /\ HandleReprocessAnalyzed(i, reply)
         /\ toast' = <<ReprocessedToast>>) =>
            LET before == ops[i].docs
                changed == {"type", "tags", "summary", "date", "metadata"}
            IN  /\ DOMAIN documents' = DOMAIN before
                /\ \A k \in DOMAIN before :
                      IF before[k].id # ops[i].doc.id
                      THEN documents'[k] = before[k]
                      ELSE /\ DOMAIN documents'[k] = DOMAIN before[k]
                           /\ \A f \in DOMAIN before[k] \ changed :
                                 documents'[k][f] = before[k][f]
                           /\ DOMAIN documents'[k].metadata =
                                 DOMAIN before[k].metadata
                           /\ \A m \in DOMAIN before[k].metadata \ {"sentiment"} :
                                 documents'[k].metadata[m] = before[k].metadata[m]
                           /\ documents'[k].date = today
                           /\ documents'[k] = selectedDocument']_vars

\* C29 witness: a document uploaded on a reply that was not JSON has been
\* reprocessed on a full reply: it has the new type and its old insights
C29_Witness ==
    /\ toast = <<ReprocessedToast>>
    /\ Len(documents) = 2
    /\ documents[1] = selectedDocument
    /\ documents[1].id = 1
    /\ documents[1].type = Defined("Resume")
    /\ documents[1].insights = "Document has been processed and analyzed."
    /\ documents[2].id = 0

====
